---- MODULE Spec2Model ----
(***************************************************************************)
(* Booking / payment lifecycle of the TicketBari server.                   *)
(*                                                                         *)
(* The store holds one collection of routes (only the availableQuantity    *)
(* counter matters here), bookings and payments; the payment gateway holds *)
(* checkout sessions.  Every request handler is an async function whose    *)
(* awaits are separate round trips to the store or to the gateway, so a    *)
(* handler is modelled as a sequence of steps of a request slot (Procs),   *)
(* one step per round trip, with the documents it has read kept in the     *)
(* slot (mongoose documents are in-memory snapshots).                      *)
(***************************************************************************)
EXTENDS Integers, Sequences, FiniteSets, TLC

\* ---- bounds of the model ------------------------------------------------
MaxInitQuantity == 2      \* a route is published with 1..MaxInitQuantity tickets
MaxLargeQuantity == 3     \* ... and with up to this many where reservations are studied
MaxQuantity == 2          \* quantity requested by one createBooking
MaxBookings == 2          \* bookings created in one behaviour
MaxPayments == 2          \* payment rows inserted in one behaviour
MaxSessions == 2          \* gateway checkout sessions created in one behaviour
MaxRequests == 5          \* requests received in one behaviour

\* ---- program constants --------------------------------------------------
MinAvailableQuantity == 1     \* RouteSchema.availableQuantity.min
DefaultAvailableTickets == 10 \* createBooking's fallback when the counter is falsy
DefaultBaseFare == 500        \* createBooking's fallback fare
DefaultFee == 0               \* default of each fee of the Payment schema

Procs == {1, 2}               \* request slots: two requests may be in flight
Routes == {"r1"}
Bookers == {"u1"}             \* users that create bookings
Users == {"u1", "u2"}         \* callers of the user endpoints
Vendors == {"v1", "v2"}       \* callers of the vendor endpoints

\* the published routes: the fields of a route document that never change here
RouteDocs == [r \in Routes |-> [vendor |-> "v1", pricingBaseFare |-> 100]]
RouteVendor(r) == RouteDocs[r].vendor
\* route.price || route.pricing?.baseFare || route.fare || 500 (price and fare
\* are not schema paths)
RouteBaseFare(r) ==
    IF RouteDocs[r].pricingBaseFare # 0 THEN RouteDocs[r].pricingBaseFare
    ELSE DefaultBaseFare

VARIABLES
    availableQuantity,   \* routes collection: route -> availableQuantity
    bookings,            \* bookings collection, _id = index
    payments,            \* payments collection, _id = index (natural order)
    sessions,            \* gateway checkout sessions, id = index
    req,                 \* request slot -> handler position and local documents
    events,              \* booking id -> number of payment-confirmed / payment-received emissions
    ledger,              \* booking id -> inventory movements applied for that booking
    initialQuantity,     \* route -> availableQuantity when the route was published
    received             \* number of requests received so far

vars == <<availableQuantity, bookings, payments, sessions, req, events, ledger,
          initialQuantity, received>>
store == <<availableQuantity, bookings, payments>>

BookingIds == 1..MaxBookings
PaymentIds == 1..MaxPayments
SessionIds == 1..MaxSessions

\* local state of a request slot with no request in it
IdleReq ==
    [pc |-> "idle", op |-> "none", res |-> "none",
     bk |-> 0,          \* booking the request is about
     pay |-> 0,         \* payment the request found / is about
     sid |-> 0,         \* gateway session id supplied or created
     q |-> 0,           \* route.availableQuantity as read by the request
     caller |-> "none", \* req.user of the vendor and refund endpoints
     bookingDate |-> "none",  \* req.body.bookingDate of createBooking
     scheduleTime |-> "none", \* route.schedule[0].departureTime it read
     intent |-> FALSE,  \* paymentIntentId is set
     wrote |-> {},      \* documents this request has written
     late |-> FALSE,    \* history: its booking was terminal on arrival
     refunded |-> {}]   \* history: that booking's payments refunded on arrival

\* the terminal values of Booking.bookingStatus / status / paymentStatus
Terminal(booking) ==
    \/ booking.bookingStatus \in {"rejected", "completed", "cancelled"}
    \/ booking.status \in {"cancelled", "completed", "refunded"}
    \/ booking.paymentStatus = "refunded"

NoMoves == [accept |-> 0, pay |-> 0, release |-> 0]

Exists(seq, i) == i \in 1..Len(seq)

\* a request about booking b as it arrives (b = 0: about no booking)
Arrival(b) ==
    [IdleReq EXCEPT
        !.late = Exists(bookings, b) /\ Terminal(bookings[b]),
        !.refunded = {i \in 1..Len(payments) :
                        payments[i].booking = b /\ payments[i].status = "refunded"}]

\* findOne / findOneAndUpdate return the first of the matching documents in
\* natural order (0: none)
FirstOf(ids) ==
    IF ids = {} THEN 0 ELSE CHOOSE i \in ids : \A j \in ids : i <= j

\* a request arrives and is given the lowest free slot
Receive(p) ==
    /\ req[p].pc = "idle"
    /\ \A o \in Procs : o < p => req[o].pc # "idle"
    /\ received < MaxRequests
    /\ received' = received + 1

Done(p, result) == [req[p] EXCEPT !.pc = "done", !.res = result]

Init ==
    /\ availableQuantity \in [Routes -> MinAvailableQuantity..MaxInitQuantity]
    /\ initialQuantity = availableQuantity
    /\ bookings = <<>>
    /\ payments = <<>>
    /\ sessions = <<>>
    /\ req = [p \in Procs |-> IdleReq]
    /\ events = [b \in BookingIds |-> 0]
    /\ ledger = [b \in BookingIds |-> NoMoves]
    /\ received = 0

\* ---- createBooking ------------------------------------------------------
\* route.availableTickets is not a schema path, so the || chain falls through
\* to availableQuantity and, when that is 0, to the default
AvailableTickets(r) ==
    IF availableQuantity[r] # 0 THEN availableQuantity[r] ELSE DefaultAvailableTickets

\* the departure time resolved from the request or the route's schedule,
\* relative to the request time
BookingDates == {"none", "invalid", "past", "future"}
ScheduleTimes == {"earlier", "later", "malformed"}
\* the schedule is read only when the request carries no bookingDate
ScheduleRead(bookingDate, scheduleTime) ==
    IF bookingDate = "none" THEN scheduleTime ELSE "none"

Departure(bookingDate, scheduleTime) ==
    IF bookingDate # "none" THEN bookingDate
    ELSE IF scheduleTime = "later" THEN "future"
    ELSE "past"   \* an earlier time today, or new Date() itself

NewBooking_FlatAmount(u, r, quantity) ==
    [user |-> u, route |-> r, vendor |-> RouteVendor(r),
     bookingStatus |-> "pending", status |-> "pending", paymentStatus |-> "pending",
     bookingQuantity |-> quantity,
     baseFare |-> RouteBaseFare(r),
     totalAmount |-> RouteBaseFare(r)]

NewBooking(u, r, quantity) ==
    [user |-> u, route |-> r, vendor |-> RouteVendor(r),
     bookingStatus |-> "pending", status |-> "pending", paymentStatus |-> "pending",
     bookingQuantity |-> quantity,
     baseFare |-> RouteBaseFare(r),
     totalAmount |-> RouteBaseFare(r) * quantity]

CreateBookingResult_AnyDeparture(r, quantity, bookingDate, scheduleTime) ==
    IF AvailableTickets(r) <= 0 THEN "NoTickets"
    ELSE IF quantity > AvailableTickets(r) THEN "NotEnoughTickets"
    ELSE IF Departure(bookingDate, scheduleTime) = "invalid" THEN "InvalidDeparture"
    ELSE "ok"

CreateBookingResult(r, quantity, bookingDate, scheduleTime) ==
    IF AvailableTickets(r) <= 0 THEN "NoTickets"
    ELSE IF quantity > AvailableTickets(r) THEN "NotEnoughTickets"
    ELSE IF Departure(bookingDate, scheduleTime) = "invalid" THEN "InvalidDeparture"
    ELSE IF Departure(bookingDate, scheduleTime) # "future" THEN "PastDeparture"
    ELSE "ok"

createBooking(p, u, r, quantity, bookingDate, scheduleTime) ==
    /\ Receive(p)
    /\ Len(bookings) < MaxBookings
    /\ LET result == CreateBookingResult(r, quantity, bookingDate, scheduleTime) IN
         IF result = "ok"
         THEN /\ bookings' = Append(bookings, NewBooking(u, r, quantity))
              /\ req' = [req EXCEPT ![p] =
                    [IdleReq EXCEPT !.pc = "done", !.op = "createBooking",
                                    !.bookingDate = bookingDate,
                                    !.scheduleTime = ScheduleRead(bookingDate, scheduleTime),
                                    !.res = "ok", !.bk = Len(bookings) + 1]]
         ELSE /\ bookings' = bookings
              /\ req' = [req EXCEPT ![p] =
                    [IdleReq EXCEPT !.pc = "done", !.op = "createBooking",
                                    !.bookingDate = bookingDate,
                                    !.scheduleTime = ScheduleRead(bookingDate, scheduleTime),
                                    !.res = result]]
    /\ UNCHANGED <<availableQuantity, payments, sessions, events, ledger, initialQuantity>>

\* ---- acceptBooking ------------------------------------------------------
VendorDecisionCheck_AnyVendor(b, caller) ==
    IF ~Exists(bookings, b) THEN "NotFound"
    ELSE IF bookings[b].bookingStatus # "pending" THEN "AlreadyProcessed"
    ELSE "ok"

\* Booking.findById and the vendor / already-processed checks
VendorDecisionCheck(b, caller) ==
    IF ~Exists(bookings, b) THEN "NotFound"
    ELSE IF bookings[b].vendor # caller THEN "NotAuthorized"
    ELSE IF bookings[b].bookingStatus # "pending" THEN "AlreadyProcessed"
    ELSE "ok"

acceptFindBooking(p, b, caller) ==
    /\ Receive(p)
    /\ LET check == VendorDecisionCheck(b, caller) IN
         req' = [req EXCEPT ![p] =
            IF check = "ok"
            THEN [Arrival(b) EXCEPT !.pc = "acceptFindRoute", !.op = "acceptBooking", !.caller = caller, !.bk = b]
            ELSE [Arrival(b) EXCEPT !.pc = "done", !.op = "acceptBooking", !.caller = caller, !.bk = b, !.res = check]]
    /\ UNCHANGED <<store, sessions, events, ledger, initialQuantity>>

\* Route.findById and the availability check on the document just read
EnoughTickets(available, quantity) == ~(available < quantity)

acceptFindRoute(p) ==
    /\ req[p].pc = "acceptFindRoute"
    /\ LET b == req[p].bk
           available == availableQuantity[bookings[b].route] IN
         req' = [req EXCEPT ![p] =
            IF EnoughTickets(available, bookings[b].bookingQuantity)
            THEN [req[p] EXCEPT !.pc = "acceptSaveBooking", !.q = available]
            ELSE [req[p] EXCEPT !.pc = "done", !.res = "InsufficientInventory", !.q = available]]
    /\ UNCHANGED <<store, sessions, events, ledger, initialQuantity, received>>

\* booking.save(): $set of the modified paths of the booking
acceptSaveBooking(p) ==
    /\ req[p].pc = "acceptSaveBooking"
    /\ bookings' = [bookings EXCEPT ![req[p].bk].bookingStatus = "accepted"]
    /\ req' = [req EXCEPT ![p] =
          [req[p] EXCEPT !.pc = "acceptSaveRoute", !.wrote = @ \cup {"booking"}]]
    /\ UNCHANGED <<availableQuantity, payments, sessions, events, ledger, initialQuantity, received>>

\* route.save(): the schema validators run on the in-memory document, then
\* the modified path is written with $set (the value computed from the read)
RouteValid(quantity) == quantity >= MinAvailableQuantity

acceptSaveRoute(p) ==
    /\ req[p].pc = "acceptSaveRoute"
    /\ LET b == req[p].bk
           r == bookings[b].route
           newQuantity == req[p].q - bookings[b].bookingQuantity IN
         IF RouteValid(newQuantity)
         THEN /\ availableQuantity' = [availableQuantity EXCEPT ![r] = newQuantity]
              /\ ledger' = [ledger EXCEPT ![b].accept = @ + 1]
              /\ req' = [req EXCEPT ![p] =
                    [req[p] EXCEPT !.pc = "done", !.res = "ok", !.wrote = @ \cup {"route"}]]
         ELSE /\ UNCHANGED <<availableQuantity, ledger>>
              /\ req' = [req EXCEPT ![p] = Done(p, "ValidationError")]
    /\ UNCHANGED <<bookings, payments, sessions, events, initialQuantity, received>>

\* ---- rejectBooking ------------------------------------------------------
rejectFindBooking(p, b, caller) ==
    /\ Receive(p)
    /\ LET check == VendorDecisionCheck(b, caller) IN
         req' = [req EXCEPT ![p] =
            IF check = "ok"
            THEN [Arrival(b) EXCEPT !.pc = "rejectSaveBooking", !.op = "rejectBooking", !.caller = caller, !.bk = b]
            ELSE [Arrival(b) EXCEPT !.pc = "done", !.op = "rejectBooking", !.caller = caller, !.bk = b, !.res = check]]
    /\ UNCHANGED <<store, sessions, events, ledger, initialQuantity>>

rejectSaveBooking(p) ==
    /\ req[p].pc = "rejectSaveBooking"
    /\ bookings' = [bookings EXCEPT ![req[p].bk].bookingStatus = "rejected"]
    /\ req' = [req EXCEPT ![p] =
          [req[p] EXCEPT !.pc = "done", !.res = "ok", !.wrote = @ \cup {"booking"}]]
    /\ UNCHANGED <<availableQuantity, payments, sessions, events, ledger, initialQuantity, received>>

\* ---- createCheckoutSession (initiateCheckout) ---------------------------
CheckoutCheck_NoInventoryCheck(b) ==
    IF ~Exists(bookings, b) THEN "NotFound"
    ELSE IF bookings[b].paymentStatus = "paid" THEN "AlreadyPaid"
    ELSE "ok"

\* Booking.findById(...).populate('route') and the two checks on it
CheckoutCheck(b) ==
    IF ~Exists(bookings, b) THEN "NotFound"
    ELSE IF bookings[b].paymentStatus = "paid" THEN "AlreadyPaid"
    ELSE IF availableQuantity[bookings[b].route] < bookings[b].bookingQuantity
         THEN "InsufficientInventory"
    ELSE "ok"

\* requests that will still create a gateway session / may still insert a payment
SessionsAhead == Cardinality({p \in Procs : req[p].pc = "checkoutCreateSession"})
InsertsAhead ==
    Cardinality({p \in Procs : req[p].pc \in
        {"checkoutCreateSession", "checkoutFindPayment", "checkoutSavePayment",
         "confirmPaymentRetrieve", "confirmPaymentSaveBooking",
         "confirmPaymentFindPayment", "confirmPaymentSavePayment"}})

checkoutFindBooking(p, b) ==
    /\ Receive(p)
    /\ Len(sessions) + SessionsAhead < MaxSessions
    /\ Len(payments) + InsertsAhead < MaxPayments
    /\ LET check == CheckoutCheck(b) IN
         req' = [req EXCEPT ![p] =
            IF check = "ok"
            THEN [Arrival(b) EXCEPT !.pc = "checkoutCreateSession",
                                 !.op = "createCheckoutSession", !.bk = b]
            ELSE [Arrival(b) EXCEPT !.pc = "done", !.op = "createCheckoutSession",
                                 !.bk = b, !.res = check]]
    /\ UNCHANGED <<store, sessions, events, ledger, initialQuantity>>

\* stripe.checkout.sessions.create: the session carries the booking id as
\* metadata and is unpaid; the call may also throw
checkoutCreateSession(p) ==
    /\ req[p].pc = "checkoutCreateSession"
    /\ \/ /\ sessions' = Append(sessions, [bookingId |-> req[p].bk, paid |-> FALSE])
          /\ req' = [req EXCEPT ![p] =
                [req[p] EXCEPT !.pc = "checkoutFindPayment", !.sid = Len(sessions) + 1]]
       \/ /\ sessions' = sessions
          /\ req' = [req EXCEPT ![p] = Done(p, "CheckoutFailed")]
    /\ UNCHANGED <<store, events, ledger, initialQuantity, received>>

\* Payment.findOne({ booking, status: 'pending' })
IsPendingFor(b, payment) == payment.booking = b /\ payment.status = "pending"

PendingPayment(b) == FirstOf({i \in 1..Len(payments) : IsPendingFor(b, payments[i])})

checkoutFindPayment(p) ==
    /\ req[p].pc = "checkoutFindPayment"
    /\ req' = [req EXCEPT ![p] =
          [req[p] EXCEPT !.pc = "checkoutSavePayment", !.pay = PendingPayment(req[p].bk)]]
    /\ UNCHANGED <<store, sessions, events, ledger, initialQuantity, received>>

\* a payments collection without the unique index
UniquePendingViolated_NoIndex(payment) == FALSE

\* the partial unique index { booking: 1, status: 1 } on status = 'pending'
UniquePendingViolated(payment) ==
    /\ payment.status = "pending"
    /\ \E i \in 1..Len(payments) : IsPendingFor(payment.booking, payments[i])

NewPayment(b, sid) ==
    [booking |-> b, user |-> bookings[b].user, amount |-> bookings[b].totalAmount,
     status |-> "pending", transactionId |-> sid, refundStatus |-> "none",
     vendorPayout |-> 0]

\* the pre('save') hooks of the Payment schema: fees.totalFees is the sum of
\* the three fees, which no handler sets, and vendorPayout.amount is filled
\* in when a document with status completed is saved
TotalFees(payment) == DefaultFee + DefaultFee + DefaultFee

PreSave(payment) ==
    IF payment.status = "completed" /\ payment.vendorPayout = 0
    THEN [payment EXCEPT !.vendorPayout = payment.amount - TotalFees(payment)]
    ELSE payment

\* payment.save(): update of the document found (by _id), or insert of a new
\* one; an insert rejected by the unique index throws, and the handler's
\* catch turns every throw into 'Failed to create checkout session'
checkoutSavePayment(p) ==
    /\ req[p].pc = "checkoutSavePayment"
    /\ LET b == req[p].bk
           found == req[p].pay IN
         IF found # 0
         THEN /\ payments' = [payments EXCEPT ![found].transactionId = req[p].sid]
              /\ req' = [req EXCEPT ![p] =
                    [req[p] EXCEPT !.pc = "done", !.res = "ok", !.wrote = @ \cup {"payment"}]]
         ELSE IF UniquePendingViolated(NewPayment(b, req[p].sid))
         THEN /\ payments' = payments
              /\ req' = [req EXCEPT ![p] = Done(p, "CheckoutFailedDuplicateKey")]
         ELSE /\ payments' = Append(payments, PreSave(NewPayment(b, req[p].sid)))
              /\ req' = [req EXCEPT ![p] =
                    [req[p] EXCEPT !.pc = "done", !.res = "ok", !.wrote = @ \cup {"payment"}]]
    /\ UNCHANGED <<availableQuantity, bookings, sessions, events, ledger, initialQuantity, received>>

\* the customer pays on the gateway's hosted page
gatewayPay(s) ==
    /\ Exists(sessions, s)
    /\ ~sessions[s].paid
    /\ sessions' = [sessions EXCEPT ![s].paid = TRUE]
    /\ UNCHANGED <<store, req, events, ledger, initialQuantity, received>>

\* ---- updatePaymentStatus (payment confirmation) -------------------------
\* a handler that lost the already-paid check
AlreadyPaid_NeverChecked(booking) == FALSE

\* "Check if already paid to avoid duplicate processing"
AlreadyPaid(booking) == booking.paymentStatus = "paid"

\* Booking.findById and the already-paid short circuit; sid = 0: no sessionId
updatePaymentStatusFindBooking(p, b, sid) ==
    /\ Receive(p)
    /\ req' = [req EXCEPT ![p] =
          IF ~Exists(bookings, b)
          THEN [Arrival(b) EXCEPT !.pc = "done", !.op = "updatePaymentStatus",
                               !.bk = b, !.sid = sid, !.res = "NotFound"]
          ELSE IF AlreadyPaid(bookings[b])
          THEN [Arrival(b) EXCEPT !.pc = "done", !.op = "updatePaymentStatus",
                               !.bk = b, !.sid = sid, !.res = "okAlreadyPaid"]
          ELSE IF sid # 0
          THEN [Arrival(b) EXCEPT !.pc = "updatePaymentStatusVerify",
                               !.op = "updatePaymentStatus", !.bk = b, !.sid = sid]
          ELSE [Arrival(b) EXCEPT !.pc = "updatePaymentStatusPayment",
                               !.op = "updatePaymentStatus", !.bk = b, !.sid = sid]]
    /\ UNCHANGED <<store, sessions, events, ledger, initialQuantity>>

SessionVerified_AnyBooking(b, sid) ==
    /\ Exists(sessions, sid)
    /\ sessions[sid].paid

\* stripe.checkout.sessions.retrieve and the two checks on the session
SessionVerified(b, sid) ==
    /\ Exists(sessions, sid)
    /\ sessions[sid].bookingId = b
    /\ sessions[sid].paid

updatePaymentStatusVerify(p) ==
    /\ req[p].pc = "updatePaymentStatusVerify"
    /\ req' = [req EXCEPT ![p] =
          IF SessionVerified(req[p].bk, req[p].sid)
          THEN [req[p] EXCEPT !.pc = "updatePaymentStatusPayment", !.intent = TRUE]
          ELSE Done(p, "PaymentNotCompleted")]
    /\ UNCHANGED <<store, sessions, events, ledger, initialQuantity, received>>

\* Payment.findOneAndUpdate: by (booking, transactionId) when the session was
\* verified, else by (booking, status pending); no match writes nothing
PaymentToComplete(b, sid, intent) ==
    IF intent
    THEN FirstOf({i \in 1..Len(payments) :
                    payments[i].booking = b /\ payments[i].transactionId = sid})
    ELSE PendingPayment(b)

updatePaymentStatusPayment(p) ==
    /\ req[p].pc = "updatePaymentStatusPayment"
    /\ LET found == PaymentToComplete(req[p].bk, req[p].sid, req[p].intent) IN
         /\ payments' = IF found = 0 THEN payments
                        ELSE [payments EXCEPT ![found].status = "completed"]
         /\ req' = [req EXCEPT ![p] =
               [req[p] EXCEPT !.pc = "updatePaymentStatusBooking", !.pay = found,
                              !.wrote = IF found = 0 THEN @ ELSE @ \cup {"payment"}]]
    /\ UNCHANGED <<availableQuantity, bookings, sessions, events, ledger, initialQuantity, received>>

\* booking.save()
updatePaymentStatusBooking(p) ==
    /\ req[p].pc = "updatePaymentStatusBooking"
    /\ bookings' = [bookings EXCEPT ![req[p].bk].paymentStatus = "paid",
                                    ![req[p].bk].status = "confirmed"]
    /\ req' = [req EXCEPT ![p] =
          [req[p] EXCEPT !.pc = "updatePaymentStatusRoute", !.wrote = @ \cup {"booking"}]]
    /\ UNCHANGED <<availableQuantity, payments, sessions, events, ledger, initialQuantity, received>>

\* Route.findByIdAndUpdate with $inc (update validators are off), then the
\* two socket events and the response
updatePaymentStatusRoute(p) ==
    /\ req[p].pc = "updatePaymentStatusRoute"
    /\ LET b == req[p].bk
           r == bookings[b].route IN
         /\ availableQuantity' =
               [availableQuantity EXCEPT ![r] = @ - bookings[b].bookingQuantity]
         /\ ledger' = [ledger EXCEPT ![b].pay = @ + 1]
         /\ events' = [events EXCEPT ![b] = @ + 1]
    /\ req' = [req EXCEPT ![p] =
          [req[p] EXCEPT !.pc = "done", !.res = "ok", !.wrote = @ \cup {"route"}]]
    /\ UNCHANGED <<bookings, payments, sessions, initialQuantity, received>>

\* ---- requestRefund ------------------------------------------------------
\* Payment.findOne({ _id, user }) and the two status checks
RefundCheck(i, caller) ==
    IF ~Exists(payments, i) \/ payments[i].user # caller THEN "NotFound"
    ELSE IF payments[i].status # "completed" THEN "NotRefundable"
    ELSE IF payments[i].refundStatus = "completed" THEN "AlreadyRefunded"
    ELSE "ok"

requestRefundFindPayment(p, i, caller) ==
    /\ Receive(p)
    /\ LET check == RefundCheck(i, caller)
           b == IF Exists(payments, i) THEN payments[i].booking ELSE 0 IN
         req' = [req EXCEPT ![p] =
            IF check = "ok"
            THEN [Arrival(b) EXCEPT !.pc = "requestRefundGateway", !.op = "requestRefund",
                                 !.caller = caller, !.pay = i, !.bk = payments[i].booking]
            ELSE [Arrival(b) EXCEPT !.pc = "done", !.op = "requestRefund",
                                 !.caller = caller, !.pay = i, !.res = check]]
    /\ UNCHANGED <<store, sessions, events, ledger, initialQuantity>>

\* stripe.refunds.create: succeeds or throws
requestRefundGateway(p) ==
    /\ req[p].pc = "requestRefundGateway"
    /\ \/ req' = [req EXCEPT ![p] = [req[p] EXCEPT !.pc = "requestRefundPayment"]]
       \/ req' = [req EXCEPT ![p] = Done(p, "GatewayError")]
    /\ UNCHANGED <<store, sessions, events, ledger, initialQuantity, received>>

\* payment.save()
requestRefundPayment(p) ==
    /\ req[p].pc = "requestRefundPayment"
    /\ payments' = [payments EXCEPT ![req[p].pay] =
          PreSave([@ EXCEPT !.status = "refunded", !.refundStatus = "completed"])]
    /\ req' = [req EXCEPT ![p] =
          [req[p] EXCEPT !.pc = "requestRefundBooking", !.wrote = @ \cup {"payment"}]]
    /\ UNCHANGED <<availableQuantity, bookings, sessions, events, ledger, initialQuantity, received>>

\* Booking.findByIdAndUpdate
requestRefundBooking(p) ==
    /\ req[p].pc = "requestRefundBooking"
    /\ bookings' = [bookings EXCEPT ![req[p].bk].paymentStatus = "refunded",
                                    ![req[p].bk].status = "refunded"]
    /\ req' = [req EXCEPT ![p] =
          [req[p] EXCEPT !.pc = "requestRefundRoute", !.wrote = @ \cup {"booking"}]]
    /\ UNCHANGED <<availableQuantity, payments, sessions, events, ledger, initialQuantity, received>>

\* Route.findByIdAndUpdate with $inc, then the response
requestRefundRoute(p) ==
    /\ req[p].pc = "requestRefundRoute"
    /\ LET b == req[p].bk
           r == bookings[b].route IN
         /\ availableQuantity' =
               [availableQuantity EXCEPT ![r] = @ + bookings[b].bookingQuantity]
         /\ ledger' = [ledger EXCEPT ![b].release = @ + 1]
    /\ req' = [req EXCEPT ![p] =
          [req[p] EXCEPT !.pc = "done", !.res = "ok", !.wrote = @ \cup {"route"}]]
    /\ UNCHANGED <<bookings, payments, sessions, events, initialQuantity, received>>

\* ---- confirmPayment (payment-intent confirm endpoint) --------------------
\* The payment intents the gateway holds are those under the checkout
\* sessions (createPaymentIntent refuses every booking: it requires status =
\* 'accepted', which Booking.status never takes). The intent under session s
\* has succeeded exactly when the session is paid; its id is written -s.
IntentOf(s) == 0 - s

\* Booking.findById and the owner check
ConfirmCheck(b, caller) ==
    IF ~Exists(bookings, b) THEN "NotFound"
    ELSE IF bookings[b].user # caller THEN "NotAuthorized"
    ELSE "ok"

confirmPaymentFindBooking(p, b, caller, s) ==
    /\ Receive(p)
    /\ Len(payments) + InsertsAhead < MaxPayments
    /\ LET check == ConfirmCheck(b, caller) IN
         req' = [req EXCEPT ![p] =
            IF check = "ok"
            THEN [Arrival(b) EXCEPT !.pc = "confirmPaymentRetrieve", !.op = "confirmPayment",
                                    !.caller = caller, !.bk = b, !.sid = s]
            ELSE [Arrival(b) EXCEPT !.pc = "done", !.op = "confirmPayment",
                                    !.caller = caller, !.bk = b, !.sid = s, !.res = check]]
    /\ UNCHANGED <<store, sessions, events, ledger, initialQuantity>>

\* stripe.paymentIntents.retrieve: throws for an unknown id (caught: 500);
\* only the intent's status is looked at, not whose booking it pays
confirmPaymentRetrieve(p) ==
    /\ req[p].pc = "confirmPaymentRetrieve"
    /\ req' = [req EXCEPT ![p] =
          IF ~Exists(sessions, req[p].sid) THEN Done(p, "ConfirmationFailed")
          ELSE IF ~sessions[req[p].sid].paid THEN Done(p, "PaymentNotCompleted")
          ELSE [req[p] EXCEPT !.pc = "confirmPaymentSaveBooking", !.intent = TRUE]]
    /\ UNCHANGED <<store, sessions, events, ledger, initialQuantity, received>>

\* booking.save()
confirmPaymentSaveBooking(p) ==
    /\ req[p].pc = "confirmPaymentSaveBooking"
    /\ bookings' = [bookings EXCEPT ![req[p].bk].paymentStatus = "paid",
                                    ![req[p].bk].status = "confirmed"]
    /\ req' = [req EXCEPT ![p] =
          [req[p] EXCEPT !.pc = "confirmPaymentFindPayment", !.wrote = @ \cup {"booking"}]]
    /\ UNCHANGED <<availableQuantity, payments, sessions, events, ledger, initialQuantity, received>>

\* Payment.findOne({ booking, user, status: 'pending' })
confirmPaymentFindPayment(p) ==
    /\ req[p].pc = "confirmPaymentFindPayment"
    /\ req' = [req EXCEPT ![p] =
          [req[p] EXCEPT !.pc = "confirmPaymentSavePayment",
                         !.pay = FirstOf({i \in 1..Len(payments) :
                                    /\ IsPendingFor(req[p].bk, payments[i])
                                    /\ payments[i].user = req[p].caller})]]
    /\ UNCHANGED <<store, sessions, events, ledger, initialQuantity, received>>

CompletedPayment(b, caller, s) ==
    [booking |-> b, user |-> caller, amount |-> bookings[b].totalAmount,
     status |-> "completed", transactionId |-> IntentOf(s), refundStatus |-> "none",
     vendorPayout |-> 0]

\* Payment.findByIdAndUpdate of the pending payment found (no save hook), or
\* Payment.create of a new completed payment (the save hooks run)
confirmPaymentSavePayment(p) ==
    /\ req[p].pc = "confirmPaymentSavePayment"
    /\ payments' =
          IF req[p].pay # 0
          THEN [payments EXCEPT ![req[p].pay].status = "completed"]
          ELSE Append(payments, PreSave(CompletedPayment(req[p].bk, req[p].caller, req[p].sid)))
    /\ req' = [req EXCEPT ![p] =
          [req[p] EXCEPT !.pc = "confirmPaymentSaveRoute", !.wrote = @ \cup {"payment"}]]
    /\ UNCHANGED <<availableQuantity, bookings, sessions, events, ledger, initialQuantity, received>>

\* Route.findById, route.availableTickets = ..., route.save(): availableTickets
\* is not a schema path, so the save writes nothing; then the response
confirmPaymentSaveRoute(p) ==
    /\ req[p].pc = "confirmPaymentSaveRoute"
    /\ req' = [req EXCEPT ![p] = Done(p, "ok")]
    /\ UNCHANGED <<store, sessions, events, ledger, initialQuantity, received>>

\* ---- the response has been sent: the slot is free again -----------------
respond(p) ==
    /\ req[p].pc = "done"
    /\ req' = [req EXCEPT ![p] = IdleReq]
    /\ UNCHANGED <<store, sessions, events, ledger, initialQuantity, received>>

Next ==
    \/ \E p \in Procs, u \in Bookers, r \in Routes, quantity \in 1..MaxQuantity,
          bookingDate \in BookingDates, scheduleTime \in ScheduleTimes :
            createBooking(p, u, r, quantity, bookingDate, scheduleTime)
    \/ \E p \in Procs, b \in BookingIds, caller \in Vendors : acceptFindBooking(p, b, caller)
    \/ \E p \in Procs : acceptFindRoute(p)
    \/ \E p \in Procs : acceptSaveBooking(p)
    \/ \E p \in Procs : acceptSaveRoute(p)
    \/ \E p \in Procs, b \in BookingIds, caller \in Vendors : rejectFindBooking(p, b, caller)
    \/ \E p \in Procs : rejectSaveBooking(p)
    \/ \E p \in Procs, b \in BookingIds : checkoutFindBooking(p, b)
    \/ \E p \in Procs : checkoutCreateSession(p)
    \/ \E p \in Procs : checkoutFindPayment(p)
    \/ \E p \in Procs : checkoutSavePayment(p)
    \/ \E s \in SessionIds : gatewayPay(s)
    \/ \E p \in Procs, b \in BookingIds, sid \in 0..MaxSessions :
            updatePaymentStatusFindBooking(p, b, sid)
    \/ \E p \in Procs : updatePaymentStatusVerify(p)
    \/ \E p \in Procs : updatePaymentStatusPayment(p)
    \/ \E p \in Procs : updatePaymentStatusBooking(p)
    \/ \E p \in Procs : updatePaymentStatusRoute(p)
    \/ \E p \in Procs, i \in PaymentIds, caller \in Users : requestRefundFindPayment(p, i, caller)
    \/ \E p \in Procs : requestRefundGateway(p)
    \/ \E p \in Procs : requestRefundPayment(p)
    \/ \E p \in Procs : requestRefundBooking(p)
    \/ \E p \in Procs : requestRefundRoute(p)
    \/ \E p \in Procs : respond(p)

Spec == Init /\ [][Next]_vars

\* ---- the store rejects a write --------------------------------------------
\* No handler wraps its store writes in a transaction or undoes the earlier
\* ones: a write that rejects (connection lost, primary stepped down) throws
\* out of the handler, which answers with an error; nothing is written by it.
WriteSteps ==
    {"acceptSaveBooking", "acceptSaveRoute", "rejectSaveBooking", "checkoutSavePayment",
     "updatePaymentStatusPayment", "updatePaymentStatusBooking", "updatePaymentStatusRoute",
     "requestRefundPayment", "requestRefundBooking", "requestRefundRoute"}

storeRejects(p) ==
    /\ req[p].pc \in WriteSteps
    /\ req' = [req EXCEPT ![p] =
          Done(p, IF req[p].op = "createCheckoutSession" THEN "CheckoutFailed" ELSE "ServerError")]
    /\ UNCHANGED <<store, sessions, events, ledger, initialQuantity, received>>

FaultNext == Next \/ \E p \in Procs : storeRejects(p)

FaultSpec == Init /\ [][FaultNext]_vars

\* ---- acceptance only: the requests of the vendor's decision screen --------
AcceptNext ==
    \/ \E p \in Procs, u \in Bookers, r \in Routes, quantity \in 1..MaxQuantity,
          bookingDate \in BookingDates, scheduleTime \in ScheduleTimes :
            createBooking(p, u, r, quantity, bookingDate, scheduleTime)
    \/ \E p \in Procs, b \in BookingIds, caller \in Vendors : acceptFindBooking(p, b, caller)
    \/ \E p \in Procs : acceptFindRoute(p)
    \/ \E p \in Procs : acceptSaveBooking(p)
    \/ \E p \in Procs : acceptSaveRoute(p)
    \/ \E p \in Procs : respond(p)

AcceptSpec == Init /\ [][AcceptNext]_vars

\* ---- reservation and checkout: routes published with more tickets ---------
ReserveInit ==
    /\ availableQuantity \in [Routes -> MinAvailableQuantity..MaxLargeQuantity]
    /\ initialQuantity = availableQuantity
    /\ bookings = <<>>
    /\ payments = <<>>
    /\ sessions = <<>>
    /\ req = [p \in Procs |-> IdleReq]
    /\ events = [b \in BookingIds |-> 0]
    /\ ledger = [b \in BookingIds |-> NoMoves]
    /\ received = 0

ReserveNext ==
    \/ \E p \in Procs, u \in Bookers, r \in Routes, quantity \in 1..MaxQuantity,
          bookingDate \in BookingDates, scheduleTime \in ScheduleTimes :
            createBooking(p, u, r, quantity, bookingDate, scheduleTime)
    \/ \E p \in Procs, b \in BookingIds, caller \in Vendors : acceptFindBooking(p, b, caller)
    \/ \E p \in Procs : acceptFindRoute(p)
    \/ \E p \in Procs : acceptSaveBooking(p)
    \/ \E p \in Procs : acceptSaveRoute(p)
    \/ \E p \in Procs, b \in BookingIds : checkoutFindBooking(p, b)
    \/ \E p \in Procs : checkoutCreateSession(p)
    \/ \E p \in Procs : checkoutFindPayment(p)
    \/ \E p \in Procs : checkoutSavePayment(p)
    \/ \E p \in Procs : respond(p)

ReserveSpec == ReserveInit /\ [][ReserveNext]_vars

\* ---- payment only: checkout and the two confirmation endpoints ------------
PaymentNext ==
    \/ \E p \in Procs, u \in Bookers, r \in Routes, quantity \in 1..MaxQuantity,
          bookingDate \in BookingDates, scheduleTime \in ScheduleTimes :
            createBooking(p, u, r, quantity, bookingDate, scheduleTime)
    \/ \E p \in Procs, b \in BookingIds : checkoutFindBooking(p, b)
    \/ \E p \in Procs : checkoutCreateSession(p)
    \/ \E p \in Procs : checkoutFindPayment(p)
    \/ \E p \in Procs : checkoutSavePayment(p)
    \/ \E s \in SessionIds : gatewayPay(s)
    \/ \E p \in Procs, b \in BookingIds, sid \in 0..MaxSessions :
            updatePaymentStatusFindBooking(p, b, sid)
    \/ \E p \in Procs : updatePaymentStatusVerify(p)
    \/ \E p \in Procs : updatePaymentStatusPayment(p)
    \/ \E p \in Procs : updatePaymentStatusBooking(p)
    \/ \E p \in Procs : updatePaymentStatusRoute(p)
    \/ \E p \in Procs, b \in BookingIds, caller \in Users, s \in SessionIds :
            confirmPaymentFindBooking(p, b, caller, s)
    \/ \E p \in Procs : confirmPaymentRetrieve(p)
    \/ \E p \in Procs : confirmPaymentSaveBooking(p)
    \/ \E p \in Procs : confirmPaymentFindPayment(p)
    \/ \E p \in Procs : confirmPaymentSavePayment(p)
    \/ \E p \in Procs : confirmPaymentSaveRoute(p)
    \/ \E p \in Procs : respond(p)

PaymentSpec == Init /\ [][PaymentNext]_vars

\* ---- helpers of the properties ------------------------------------------
RECURSIVE Sum(_, _)
Sum(S, f) ==
    IF S = {} THEN 0
    ELSE LET x == CHOOSE x \in S : TRUE IN f[x] + Sum(S \ {x}, f)

Created == 1..Len(bookings)
Quantity == [b \in Created |-> bookings[b].bookingQuantity]
InFlight(p, operation) == req[p].op = operation /\ req[p].pc \notin {"idle", "done"}
Finished(p, operation) == req[p].op = operation /\ req[p].pc = "done"

\* ---- C1 -------------------------------------------------------------------
\* C1: in every reachable state every route has availableQuantity >= 0 (a
\* decrement of q applied when q > availableQuantity is exactly a step into a
\* negative counter).
C1_InventoryNeverNegative ==
    \A r \in Routes : availableQuantity[r] >= 0

\* ---- C2 -------------------------------------------------------------------
\* bookings whose acceptBooking call succeeded (both writes applied)
AcceptSucceeded(r) ==
    {b \in Created : bookings[b].route = r /\ ledger[b].accept >= 1}

\* C2: with only acceptBooking calls running against a route published with n
\* tickets, once no call is in flight the quantities of the bookings whose
\* acceptance succeeded sum to at most n and availableQuantity is n minus
\* that sum.
C2_ConcurrentAcceptNeverOversells ==
    \A r \in Routes :
        (\A p \in Procs : ~InFlight(p, "acceptBooking")) =>
            /\ Sum(AcceptSucceeded(r), Quantity) <= initialQuantity[r]
            /\ availableQuantity[r] = initialQuantity[r] - Sum(AcceptSucceeded(r), Quantity)

\* ---- C3 -------------------------------------------------------------------
\* C3: once no acceptBooking call is in flight for a booking (the call has
\* succeeded or failed), the booking is not observable with bookingStatus =
\* accepted unless its quantity has been taken off its route by the acceptance.
C3_AcceptedImpliesReserved ==
    \A b \in Created :
        (/\ bookings[b].bookingStatus = "accepted"
         /\ \A p \in Procs : ~(InFlight(p, "acceptBooking") /\ req[p].bk = b)) =>
            ledger[b].accept >= 1

\* ---- C4 -------------------------------------------------------------------
\* C4: an acceptBooking call by the booking's vendor that found the booking
\* pending and read availableQuantity a >= q (q = a included) succeeds with
\* the booking accepted and q taken off the route; a call that read a < q
\* ends with InsufficientInventory.
C4_AcceptSucceedsWhenItFits ==
    \A p \in Procs :
        (Finished(p, "acceptBooking") /\ req[p].res \notin {"NotFound", "NotAuthorized", "AlreadyProcessed"}) =>
            LET b == req[p].bk IN
            IF req[p].q >= bookings[b].bookingQuantity
            THEN /\ req[p].res = "ok"
                 /\ bookings[b].bookingStatus = "accepted"
                 /\ ledger[b].accept >= 1
            ELSE req[p].res = "InsufficientInventory"

\* ---- C5 -------------------------------------------------------------------
\* C5: a booking whose acceptance succeeded and that is recorded as paid has
\* had its quantity taken off the route exactly once, counting the decrement
\* of acceptBooking and the decrement of updatePaymentStatus together.
C5_SingleDecrementPoint ==
    \A b \in Created :
        (/\ ledger[b].accept >= 1
         /\ bookings[b].paymentStatus = "paid"
         /\ \A p \in Procs : ~(InFlight(p, "updatePaymentStatus") /\ req[p].bk = b)) =>
            ledger[b].accept + ledger[b].pay = 1

\* ---- C6 -------------------------------------------------------------------
\* C6: an update-payment-status call that arrives when the booking is already
\* recorded as paid (a first call has succeeded) answers success at once and
\* changes no booking, payment or route and emits no event, whatever session
\* id it carries.
C6_RepeatedConfirmationIsNoOp ==
    [][\A p \in Procs :
        (/\ req[p].pc = "idle"
         /\ req'[p].op = "updatePaymentStatus"
         /\ Exists(bookings, req'[p].bk)
         /\ bookings[req'[p].bk].paymentStatus = "paid") =>
            /\ req'[p].pc = "done"
            /\ req'[p].res = "okAlreadyPaid"
            /\ UNCHANGED <<availableQuantity, bookings, payments, events, ledger>>]_vars

C6_Witness ==
    \E p \in Procs :
        /\ Finished(p, "updatePaymentStatus")
        /\ req[p].res = "okAlreadyPaid"
        /\ ledger[req[p].bk].pay = 1
        /\ events[req[p].bk] = 1
        /\ bookings[req[p].bk].paymentStatus = "paid"

\* ---- C7 -------------------------------------------------------------------
\* no refund has been recorded for a payment of the booking
NeverRefunded(b) ==
    \A i \in 1..Len(payments) :
        payments[i].booking = b => payments[i].refundStatus # "completed"

\* C7: however update-payment-status calls for one booking interleave, the
\* payment decrement is applied at most once for the booking and the
\* payment-confirmed / payment-received events are emitted at most once
\* (as long as the booking has not been refunded in between).
C7_ConfirmedAtMostOnce ==
    \A b \in Created :
        NeverRefunded(b) => (ledger[b].pay <= 1 /\ events[b] <= 1)

\* ---- C8 -------------------------------------------------------------------
PendingCount(b) ==
    Cardinality({i \in 1..Len(payments) : IsPendingFor(b, payments[i])})

\* C8: every booking has at most one pending Payment in every state; a
\* checkout that found a pending Payment adds no row and stores its new
\* session id on that row, and a checkout that inserts leaves exactly one
\* pending row for the booking.
C8_OnePendingPayment ==
    /\ [](\A b \in BookingIds : PendingCount(b) <= 1)
    /\ [][\A p \in Procs :
            (/\ req[p].pc = "checkoutSavePayment"
             /\ req'[p].pc = "done"
             /\ req'[p].res = "ok") =>
                IF req[p].pay # 0
                THEN /\ Len(payments') = Len(payments)
                     /\ payments'[req[p].pay].transactionId = req[p].sid
                ELSE PendingCount(req[p].bk)' = 1]_vars

C8_Witness ==
    \E p \in Procs :
        /\ Finished(p, "createCheckoutSession")
        /\ req[p].res = "ok"
        /\ req[p].pay # 0
        /\ payments[req[p].pay].transactionId = req[p].sid
        /\ Len(sessions) = 2
        /\ PendingCount(req[p].bk) = 1

\* ---- C9 -------------------------------------------------------------------
\* C9: a checkout whose insert is rejected by the unique index on (booking,
\* status = pending) does not answer with an error.
C9_RaceLoserDoesNotFail ==
    \A p \in Procs :
        Finished(p, "createCheckoutSession") => req[p].res # "CheckoutFailedDuplicateKey"

\* ---- C10 ------------------------------------------------------------------
RefundWrites == {"payment", "booking", "route"}

\* C10: a refund request that has got past its checks and has completed or
\* failed has applied all three changes (payment refunded with its refund
\* record, booking refunded, quantity released) or none of them, and a
\* successful one has applied all three.
C10_RefundAppliedTogether ==
    \A p \in Procs :
        (Finished(p, "requestRefund") /\ req[p].res \notin {"NotFound", "NotRefundable", "AlreadyRefunded"}) =>
            /\ req[p].wrote \in {{}, RefundWrites}
            /\ req[p].res = "ok" =>
                  (req[p].wrote = RefundWrites /\ payments[req[p].pay].refundStatus = "completed")

\* ---- C11 ------------------------------------------------------------------
\* payments of the booking on which a refund has been recorded
RefundedPayments(b) ==
    {i \in 1..Len(payments) : payments[i].booking = b /\ payments[i].refundStatus = "completed"}

\* C11: the quantity of a booking is released to the route at most once per
\* refunded payment of the booking, however requestRefund calls for the
\* payment repeat or interleave.
C11_ReleasedOncePerRefund ==
    \A b \in Created :
        ledger[b].release <= Cardinality(RefundedPayments(b))

\* ---- C12 ------------------------------------------------------------------
Quiet == \A p \in Procs : req[p].pc \in {"idle", "done"}

\* C12: when the only booking of a route has been accepted, confirmed paid
\* and refunded, once each, and no request is in flight, the route's
\* availableQuantity is back at its value before the acceptance.
C12_ReserveReleaseRoundTrip ==
    \A b \in Created :
        (/\ Len(bookings) = 1
         /\ Quiet
         /\ ledger[b] = [accept |-> 1, pay |-> 1, release |-> 1]
         /\ bookings[b].paymentStatus = "refunded") =>
            availableQuantity[bookings[b].route] = initialQuantity[bookings[b].route]

\* ---- C13 ------------------------------------------------------------------
\* the three refusals of acceptBooking named by the contract
AcceptRefusals == {"NotAuthorized", "AlreadyProcessed", "InsufficientInventory"}

\* C13: acceptBooking on an existing booking answers NotAuthorized when the
\* caller is not the booking's vendor, AlreadyProcessed when the caller is
\* the vendor and bookingStatus is not pending, and InsufficientInventory
\* when the route it reads has availableQuantity < bookingQuantity; the step
\* that refuses leaves bookings, routes and payments unchanged and the
\* refused request has written nothing.
C13_AcceptRefusals ==
    [][\A p \in Procs :
        /\ (req[p].pc = "idle" /\ req'[p].op = "acceptBooking"
                /\ Exists(bookings, req'[p].bk)) =>
            LET booking == bookings[req'[p].bk] IN
              /\ booking.vendor # req'[p].caller =>
                    /\ req'[p].pc = "done" /\ req'[p].res = "NotAuthorized"
                    /\ UNCHANGED store
              /\ (booking.vendor = req'[p].caller /\ booking.bookingStatus # "pending") =>
                    /\ req'[p].pc = "done" /\ req'[p].res = "AlreadyProcessed"
                    /\ UNCHANGED store
        /\ (req[p].pc = "acceptFindRoute" /\ req'[p].pc # "acceptFindRoute") =>
            LET booking == bookings[req[p].bk] IN
              availableQuantity[booking.route] < booking.bookingQuantity =>
                    /\ req'[p].pc = "done" /\ req'[p].res = "InsufficientInventory"
                    /\ UNCHANGED store
        /\ (req'[p].op = "acceptBooking" /\ req'[p].res \in AcceptRefusals) =>
            req'[p].wrote = {}
      ]_vars

\* a vendor was refused for lack of inventory on a booking still pending,
\* while another acceptBooking was refused on the caller or the status
C13_Witness ==
    \E p, o \in Procs :
        /\ Finished(p, "acceptBooking") /\ req[p].res = "InsufficientInventory"
        /\ bookings[req[p].bk].bookingStatus = "pending"
        /\ Finished(o, "acceptBooking")
        /\ req[o].res \in {"NotAuthorized", "AlreadyProcessed"}

\* ---- C14 ------------------------------------------------------------------
\* C14: createCheckoutSession on an existing booking answers AlreadyPaid
\* when the booking's paymentStatus is paid, and InsufficientInventory when
\* it is not paid and the route has availableQuantity < bookingQuantity; the
\* refusing step ends the request without touching any payment (nor booking
\* or route) and without creating a gateway session.
C14_CheckoutRefusals ==
    [][\A p \in Procs :
        (req[p].pc = "idle" /\ req'[p].op = "createCheckoutSession"
            /\ Exists(bookings, req'[p].bk)) =>
          LET booking == bookings[req'[p].bk]
              short == availableQuantity[booking.route] < booking.bookingQuantity IN
            /\ booking.paymentStatus = "paid" =>
                  /\ req'[p].pc = "done" /\ req'[p].res = "AlreadyPaid"
                  /\ req'[p].wrote = {} /\ req'[p].sid = 0
                  /\ UNCHANGED <<store, sessions>>
            /\ (booking.paymentStatus # "paid" /\ short) =>
                  /\ req'[p].pc = "done" /\ req'[p].res = "InsufficientInventory"
                  /\ req'[p].wrote = {} /\ req'[p].sid = 0
                  /\ UNCHANGED <<store, sessions>>
      ]_vars

\* one checkout was refused as already paid and another for lack of inventory
C14_Witness ==
    \E p, o \in Procs :
        /\ Finished(p, "createCheckoutSession") /\ req[p].res = "AlreadyPaid"
        /\ bookings[req[p].bk].paymentStatus = "paid"
        /\ Finished(o, "createCheckoutSession") /\ req[o].res = "InsufficientInventory"
        /\ bookings[req[o].bk].paymentStatus # "paid"

\* ---- C15 ------------------------------------------------------------------
\* the gateway holds session sid, its metadata names booking b, and it is paid
NamesAndPaid(b, sid) ==
    /\ sid \in 1..Len(sessions)
    /\ sessions[sid].bookingId = b
    /\ sessions[sid].paid

\* C15 as stated: an update-payment-status call carrying a session id
\* answers success only if the gateway session names this booking and is
\* reported paid.
C15_SuccessOnlyIfVerified ==
    \A p \in Procs :
        (/\ Finished(p, "updatePaymentStatus")
         /\ req[p].sid # 0
         /\ req[p].res \in {"ok", "okAlreadyPaid"}) =>
            NamesAndPaid(req[p].bk, req[p].sid)

\* C15 amended: an update-payment-status call carrying a session id that
\* found the booking not yet paid goes on to its writes only if the gateway
\* session names this booking and is reported paid, and otherwise answers
\* PaymentNotCompleted having changed no booking, payment or route and
\* emitted no event; a call that completed the confirmation with a session
\* id had that session verified.
C15_UnpaidNeedsVerifiedSession ==
    /\ [](\A p \in Procs :
            (Finished(p, "updatePaymentStatus") /\ req[p].sid # 0 /\ req[p].res = "ok") =>
                NamesAndPaid(req[p].bk, req[p].sid))
    /\ [][\A p \in Procs :
            (req[p].pc = "updatePaymentStatusVerify"
                /\ req'[p].pc # "updatePaymentStatusVerify") =>
              IF NamesAndPaid(req[p].bk, req[p].sid)
              THEN req'[p].pc = "updatePaymentStatusPayment"
              ELSE /\ req'[p].pc = "done"
                   /\ req'[p].res = "PaymentNotCompleted"
                   /\ req'[p].wrote = {}
                   /\ UNCHANGED <<store, events, ledger>>]_vars

\* a call for an unpaid booking was refused although the session it carried
\* is paid: the session belongs to another booking
C15_Witness ==
    \E p \in Procs :
        /\ Finished(p, "updatePaymentStatus")
        /\ req[p].res = "PaymentNotCompleted"
        /\ req[p].sid \in 1..Len(sessions)
        /\ sessions[req[p].sid].paid
        /\ sessions[req[p].sid].bookingId # req[p].bk
        /\ bookings[req[p].bk].paymentStatus = "pending"
        /\ events[req[p].bk] = 0

\* ---- C16 ------------------------------------------------------------------
\* C16: when update-payment-status reaches its payment update for a booking
\* that has a pending Payment, that Payment is completed by the update, also
\* when the session id it carries is an earlier session than the one stored
\* on the pending Payment (the booking is marked paid by the next step).
C16_PendingPaymentCompleted ==
    [][\A p \in Procs :
        (/\ req[p].pc = "updatePaymentStatusPayment"
         /\ req'[p].pc = "updatePaymentStatusBooking"
         /\ PendingPayment(req[p].bk) # 0) =>
            payments'[PendingPayment(req[p].bk)].status = "completed"]_vars

\* ---- C17 ------------------------------------------------------------------
\* C17: requestRefund answers NotFound when the caller owns no payment with
\* that id, AlreadyRefunded when the payment already carries a completed
\* refund, and NotRefundable when it carries none and its status is not
\* completed; a refused request changes no payment, booking or route.
C17_RefundRefusals ==
    [][\A p \in Procs :
        (req[p].pc = "idle" /\ req'[p].op = "requestRefund") =>
          LET i == req'[p].pay
              owned == Exists(payments, i) /\ payments[i].user = req'[p].caller IN
            /\ ~owned => req'[p].res = "NotFound"
            /\ (owned /\ payments[i].refundStatus = "completed") =>
                  req'[p].res = "AlreadyRefunded"
            /\ (owned /\ payments[i].refundStatus # "completed"
                      /\ payments[i].status # "completed") =>
                  req'[p].res = "NotRefundable"
            /\ req'[p].res \in {"NotFound", "AlreadyRefunded", "NotRefundable"} =>
                  (req'[p].pc = "done" /\ UNCHANGED store)
      ]_vars

\* ---- C18 ------------------------------------------------------------------
\* the three status fields of a booking
Statuses(booking) == <<booking.bookingStatus, booking.status, booking.paymentStatus>>

\* C18: no step of a request that arrived when its booking was already in a
\* terminal state (rejected, cancelled, completed or refunded) changes one of
\* the booking's three status fields or moves inventory for it.
C18_TerminalStatesAbsorbing ==
    [][\A p \in Procs :
        (req[p].late /\ req'[p] # req[p] /\ req[p].pc # "done") =>
            /\ Statuses(bookings'[req[p].bk]) = Statuses(bookings[req[p].bk])
            /\ ledger'[req[p].bk] = ledger[req[p].bk]]_vars

\* ---- C19 ------------------------------------------------------------------
\* C19: in every reachable state a booking with paymentStatus = paid or
\* status = confirmed has bookingStatus = accepted.
C19_PaidOnlyWhenAccepted ==
    \A b \in Created :
        (bookings[b].paymentStatus = "paid" \/ bookings[b].status = "confirmed") =>
            bookings[b].bookingStatus = "accepted"

\* ---- C20 ------------------------------------------------------------------
\* C20: no step of a request that arrived when a Payment of its booking had
\* status = refunded changes that Payment.
C20_RefundedPaymentFrozen ==
    [][\A p \in Procs :
        (req'[p] # req[p] /\ req[p].pc # "done") =>
            \A i \in req[p].refunded : payments'[i] = payments[i]]_vars

\* ---- C21 ------------------------------------------------------------------
\* C21: once an update-payment-status call for a booking has answered
\* success and no other such call is in flight for it, the booking is paid
\* and its quantity has been taken off the route and the events emitted (as
\* long as no refund intervened), also when an earlier call for the booking
\* was cut short by a failed write: the retry completes what was left.
C21_RetryCompletesConfirmation ==
    \A p \in Procs :
        (/\ Finished(p, "updatePaymentStatus")
         /\ req[p].res \in {"ok", "okAlreadyPaid"}
         /\ NeverRefunded(req[p].bk)
         /\ \A o \in Procs : ~(InFlight(o, "updatePaymentStatus") /\ req[o].bk = req[p].bk)) =>
            /\ bookings[req[p].bk].paymentStatus = "paid"
            /\ ledger[req[p].bk].pay >= 1
            /\ events[req[p].bk] >= 1

\* ---- C22 ------------------------------------------------------------------
\* C22: createBooking creates a booking only when the route's
\* availableQuantity is greater than 0 and the requested quantity does not
\* exceed it; a refused request creates no booking.
C22_CreateNeedsAvailableQuantity ==
    [][\A p \in Procs :
        (req[p].pc = "idle" /\ req'[p].op = "createBooking") =>
            IF req'[p].res = "ok"
            THEN LET created == bookings'[Len(bookings')] IN
                   /\ availableQuantity[created.route] > 0
                   /\ created.bookingQuantity <= availableQuantity[created.route]
            ELSE bookings' = bookings]_vars

\* ---- C23 ------------------------------------------------------------------
\* C23: a successful createBooking appends one booking with bookingStatus,
\* status and paymentStatus all pending and totalAmount = baseFare *
\* bookingQuantity, and changes no route's availableQuantity (nor any other
\* booking, payment or inventory movement).
C23_CreatePersistsPendingOnly ==
    [][\A p \in Procs :
        (req[p].pc = "idle" /\ req'[p].op = "createBooking" /\ req'[p].res = "ok") =>
            /\ Len(bookings') = Len(bookings) + 1
            /\ SubSeq(bookings', 1, Len(bookings)) = bookings
            /\ req'[p].bk = Len(bookings')
            /\ LET created == bookings'[Len(bookings')] IN
                 /\ Statuses(created) = <<"pending", "pending", "pending">>
                 /\ created.totalAmount = created.baseFare * created.bookingQuantity
            /\ UNCHANGED <<availableQuantity, payments, ledger>>]_vars

\* a booking of more than one ticket has just been created on an untouched route
C23_Witness ==
    \E p \in Procs :
        /\ Finished(p, "createBooking") /\ req[p].res = "ok"
        /\ bookings[req[p].bk].bookingQuantity = MaxQuantity
        /\ bookings[req[p].bk].totalAmount = MaxQuantity * bookings[req[p].bk].baseFare
        /\ Statuses(bookings[req[p].bk]) = <<"pending", "pending", "pending">>
        /\ availableQuantity = initialQuantity

\* ---- C24 ------------------------------------------------------------------
\* C24: a createBooking request whose departure time, resolved from the
\* bookingDate it carries or else from today's date and the route's first
\* scheduled time, is not strictly later than the request time is refused
\* and appends no booking.
C24_DepartureMustBeFuture ==
    [][\A p \in Procs :
        (/\ req[p].pc = "idle"
         /\ req'[p].op = "createBooking"
         /\ Departure(req'[p].bookingDate, req'[p].scheduleTime) # "future") =>
            /\ req'[p].res # "ok"
            /\ bookings' = bookings]_vars

\* a request with no bookingDate, on a route with tickets left whose first
\* departure of today has passed, was refused for its departure
C24_Witness ==
    \E p \in Procs :
        /\ Finished(p, "createBooking")
        /\ req[p].bookingDate = "none"
        /\ req[p].scheduleTime = "earlier"
        /\ req[p].res = "PastDeparture"
        /\ \E r \in Routes : availableQuantity[r] > 0

\* ---- C25 ------------------------------------------------------------------
\* C25: rejectBooking refuses a caller who is not the booking's vendor with
\* NotAuthorized and a booking not pending with AlreadyProcessed, a booking
\* becomes rejected only from bookingStatus = pending, and no step of
\* rejectBooking changes a route's availableQuantity.
C25_RejectOnlyPending ==
    [][/\ \A p \in Procs :
            /\ (req[p].pc = "idle" /\ req'[p].op = "rejectBooking"
                    /\ Exists(bookings, req'[p].bk)) =>
                LET booking == bookings[req'[p].bk] IN
                  /\ booking.vendor # req'[p].caller => req'[p].res = "NotAuthorized"
                  /\ (booking.vendor = req'[p].caller /\ booking.bookingStatus # "pending") =>
                        req'[p].res = "AlreadyProcessed"
            /\ (req'[p].op = "rejectBooking" /\ req'[p] # req[p]) =>
                  availableQuantity' = availableQuantity
       /\ \A b \in Created :
            (bookings'[b].bookingStatus = "rejected" /\ bookings[b].bookingStatus # "rejected") =>
                bookings[b].bookingStatus = "pending"]_vars

\* ---- C26 ------------------------------------------------------------------
\* C26: in every reachable state every Payment with status = completed has
\* vendorPayout.amount = amount - fees.totalFees.
C26_PayoutSetOnCompletion ==
    \A i \in 1..Len(payments) :
        payments[i].status = "completed" =>
            payments[i].vendorPayout = payments[i].amount - TotalFees(payments[i])

\* ---- C27 ------------------------------------------------------------------
\* C27: a checkout for a booking that is accepted and unpaid, on a route
\* whose availableQuantity is exactly what the booking's acceptance left (the
\* published quantity minus bookingQuantity), is not refused with
\* InsufficientInventory.
C27_AcceptedBookingPayable ==
    [][\A p \in Procs :
        (/\ req[p].pc = "idle"
         /\ req'[p].op = "createCheckoutSession"
         /\ Exists(bookings, req'[p].bk)
         /\ bookings[req'[p].bk].bookingStatus = "accepted"
         /\ bookings[req'[p].bk].paymentStatus = "pending"
         /\ ledger[req'[p].bk] = [accept |-> 1, pay |-> 0, release |-> 0]
         /\ availableQuantity[bookings[req'[p].bk].route] =
                initialQuantity[bookings[req'[p].bk].route]
                    - bookings[req'[p].bk].bookingQuantity) =>
            req'[p].res # "InsufficientInventory"]_vars

\* ---- C28 ------------------------------------------------------------------
\* C28: in every reachable state a booking with paymentStatus = paid has a
\* gateway session (or the intent under it) that names the booking and that
\* the gateway reports as paid.
C28_PaidOnlyAfterGatewayConfirmation ==
    \A b \in Created :
        bookings[b].paymentStatus = "paid" =>
            \E s \in 1..Len(sessions) : sessions[s].bookingId = b /\ sessions[s].paid

\* ---- C29 ------------------------------------------------------------------
\* payments of the booking with status = completed
CompletedPayments(b) ==
    {i \in 1..Len(payments) : payments[i].booking = b /\ payments[i].status = "completed"}

\* C29: in every reachable state a booking with paymentStatus = paid has a
\* Payment with status = completed.
C29_PaidHasCompletedPayment ==
    \A b \in Created :
        bookings[b].paymentStatus = "paid" => CompletedPayments(b) # {}

\* ---- C30 ------------------------------------------------------------------
\* C30: in every reachable state each booking has at most one Payment with
\* status = completed.
C30_AtMostOneCompletedPayment ==
    \A b \in Created : Cardinality(CompletedPayments(b)) <= 1
====
